---- MODULE Spec2Model ----
(***************************************************************************)
(* State-machine model of the SimpleToken ink! contract (src/lib.rs).      *)
(*                                                                         *)
(* The contract storage is the struct SimpleToken; every #[ink(message)]   *)
(* is one action.  The u128 amounts are scaled down to 0 .. U128Max so     *)
(* that the checked arithmetic reaches its limits within a few calls.      *)
(* A storage Mapping is a function whose DOMAIN is the set of keys that    *)
(* have been inserted; reading an absent key goes through unwrap_or.       *)
(***************************************************************************)
EXTENDS Integers, Naturals, Sequences, FiniteSets, TLC

\* ---------------------------------------------------------------- bounds
\* Number of AccountId values that call the contract.
NumAccounts == 2

\* Largest value of the scaled-down unsigned amount type (u128::MAX).
U128Max == 2

\* Number of (owner, spender) pairs that get an allowance.
MaxApprovals == 1

AccountId == 1 .. NumAccounts
U128 == 0 .. U128Max

\* Option::None of checked_add / checked_sub.
None == -1

\* ---------------------------------------------------------------- state
VARIABLES
    owner,          \* SimpleToken.owner
    balances,       \* SimpleToken.balances   : Mapping<AccountId, u128>
    total_supply,   \* SimpleToken.total_supply
    allowances,     \* SimpleToken.allowances : Mapping<(AccountId, AccountId), u128>
    is_paused,      \* SimpleToken.is_paused
    blacklist,      \* SimpleToken.blacklist  : Mapping<AccountId, bool>
    call,           \* the message dispatched last: its inputs and what it returned
    emitted,        \* the events the last message handed to env().emit_event
    minted          \* history: the sum of the amounts of the successful mints

vars == <<owner, balances, total_supply, allowances, is_paused, blacklist, call, emitted,
          minted>>

\* The history variable records what has happened; no message reads it.
history == <<minted>>

\* The storage fields of the contract.
storage == <<owner, balances, total_supply, allowances, is_paused, blacklist>>

\* ---------------------------------------------------------------- helpers
\* Mapping::insert(key, &value)
insert(m, k, v) == [x \in (DOMAIN m) \cup {k} |-> IF x = k THEN v ELSE m[x]]

\* u128::checked_add with the off-by-one of a strict comparison.
checked_add_strict(a, b) == IF a + b < U128Max THEN a + b ELSE None

\* u128::wrapping_add in place of checked_add.
wrapping_add(a, b) == (a + b) % (U128Max + 1)

\* u128::checked_add
checked_add(a, b) == IF a + b <= U128Max THEN a + b ELSE None

\* u128::checked_sub with the off-by-one of a strict comparison.
checked_sub_strict(a, b) == IF a > b THEN a - b ELSE None

\* u128::checked_sub
checked_sub(a, b) == IF a >= b THEN a - b ELSE None

\* self.balances.get(account).unwrap_or(0)
balance_of(account) == IF account \in DOMAIN balances THEN balances[account] ELSE 0

\* check_blacklisted with unwrap_or(true).
check_blacklisted_default_true(account) ==
    IF account \in DOMAIN blacklist THEN blacklist[account] ELSE TRUE

\* self.blacklist.get(account).unwrap_or(false)
check_blacklisted(account) == IF account \in DOMAIN blacklist THEN blacklist[account] ELSE FALSE

\* What a message returns to its caller, with the inputs it was given.
\* result is the Result<()> ("Ok" or the Error variant); value is the returned
\* u128 or AccountId of the read-only messages (0 for the others).
Return(op, caller, to, amount, result, value) ==
    call' = [op |-> op, caller |-> caller, to |-> to, amount |-> amount,
             result |-> result, value |-> value]

\* The events carry env().block_timestamp() as well; the clock is outside the
\* contract and no message reads it back, so the records keep the other fields.
Minted(to, amount) == [event |-> "Minted", from |-> 0, to |-> to, amount |-> amount]

Transfer(from, to, amount) == [event |-> "Transfer", from |-> from, to |-> to, amount |-> amount]

\* ---------------------------------------------------------------- new
\* new() with an owner that is not the deploying caller.
Init_owner_not_caller ==
    /\ owner \in AccountId
    /\ balances = <<>>
    /\ total_supply = 0
    /\ allowances = <<>>
    /\ is_paused = FALSE
    /\ blacklist = <<>>
    /\ \E deployer \in AccountId :
          call = [op |-> "new", caller |-> deployer, to |-> deployer, amount |-> 0,
                  result |-> "Ok", value |-> 0]
    /\ emitted = <<>>
    /\ minted = 0

\* SimpleToken::new(), deployed by any account.
Init ==
    /\ owner \in AccountId
    /\ balances = <<>>
    /\ total_supply = 0
    /\ allowances = <<>>
    /\ is_paused = FALSE
    /\ blacklist = <<>>
    /\ call = [op |-> "new", caller |-> owner, to |-> owner, amount |-> 0,
               result |-> "Ok", value |-> 0]
    /\ emitted = <<>>
    /\ minted = 0

\* ---------------------------------------------------------------- mint
\* The validations of mint without the zero-amount one.
mint_check_no_amount(caller, amount) ==
    IF caller # owner THEN "Unauthorized"
    ELSE "Ok"

\* The two validations of mint, amount first.
mint_check_amount_first(caller, amount) ==
    IF amount = 0 THEN "InvalidAmount"
    ELSE IF caller # owner THEN "Unauthorized"
    ELSE "Ok"

\* The validations of mint without the comparison of the caller with the owner.
mint_check_no_auth(caller, amount) ==
    IF amount = 0 THEN "InvalidAmount"
    ELSE "Ok"

\* The two validations at the head of mint.
mint_check(caller, amount) ==
    IF caller # owner THEN "Unauthorized"
    ELSE IF amount = 0 THEN "InvalidAmount"
    ELSE "Ok"

\* mint with emit_event moved in front of the update of total_supply.
mint_emit_early(caller, to, amount) ==
    LET check == mint_check(caller, amount)
        current_balance == balance_of(to)
        new_balance == checked_add(current_balance, amount)
        new_total == checked_add(total_supply, amount)
    IN  IF check # "Ok" THEN
            /\ Return("mint", caller, to, amount, check, 0)
            /\ emitted' = <<>>
            /\ UNCHANGED storage
            /\ UNCHANGED history
        ELSE IF new_balance = None THEN
            \* the first ? returns before anything is written
            /\ Return("mint", caller, to, amount, "Overflow", 0)
            /\ emitted' = <<>>
            /\ UNCHANGED storage
            /\ UNCHANGED history
        ELSE IF new_total = None THEN
            \* the second ? returns after balances.insert has run
            /\ balances' = insert(balances, to, new_balance)
            /\ Return("mint", caller, to, amount, "Overflow", 0)
            /\ emitted' = <<Minted(to, amount)>>
            /\ UNCHANGED <<owner, total_supply, allowances, is_paused, blacklist>>
            /\ UNCHANGED history
        ELSE
            /\ balances' = insert(balances, to, new_balance)
            /\ total_supply' = new_total
            /\ emitted' = <<Minted(to, amount)>>
            /\ Return("mint", caller, to, amount, "Ok", 0)
            /\ UNCHANGED <<owner, allowances, is_paused, blacklist>>
            /\ minted' = minted + amount

\* SimpleToken::mint
mint(caller, to, amount) ==
    LET check == mint_check(caller, amount)
        current_balance == balance_of(to)
        new_balance == checked_add(current_balance, amount)
        new_total == checked_add(total_supply, amount)
    IN  IF check # "Ok" THEN
            /\ Return("mint", caller, to, amount, check, 0)
            /\ emitted' = <<>>
            /\ UNCHANGED storage
            /\ UNCHANGED history
        ELSE IF new_balance = None THEN
            \* the first ? returns before anything is written
            /\ Return("mint", caller, to, amount, "Overflow", 0)
            /\ emitted' = <<>>
            /\ UNCHANGED storage
            /\ UNCHANGED history
        ELSE IF new_total = None THEN
            \* the second ? returns after balances.insert has run
            /\ balances' = insert(balances, to, new_balance)
            /\ Return("mint", caller, to, amount, "Overflow", 0)
            /\ emitted' = <<>>
            /\ UNCHANGED <<owner, total_supply, allowances, is_paused, blacklist>>
            /\ UNCHANGED history
        ELSE
            /\ balances' = insert(balances, to, new_balance)
            /\ total_supply' = new_total
            /\ emitted' = <<Minted(to, amount)>>
            /\ Return("mint", caller, to, amount, "Ok", 0)
            /\ UNCHANGED <<owner, allowances, is_paused, blacklist>>
            /\ minted' = minted + amount

\* ---------------------------------------------------------------- transfer
\* The validations of transfer with the zero-amount one made first.
transfer_check_amount_first(caller, to, amount) ==
    IF amount = 0 THEN "InvalidAmount"
    ELSE IF is_paused THEN "ContractPaused"
    ELSE IF check_blacklisted(caller) \/ check_blacklisted(to) THEN "AccountBlacklisted"
    ELSE IF balance_of(caller) < amount THEN "InsufficientBalance"
    ELSE "Ok"

\* The validations of transfer without the comparison of the balance.
transfer_check_no_balance(caller, to, amount) ==
    IF is_paused THEN "ContractPaused"
    ELSE IF check_blacklisted(caller) \/ check_blacklisted(to) THEN "AccountBlacklisted"
    ELSE IF amount = 0 THEN "InvalidAmount"
    ELSE "Ok"

\* The validations of transfer without the test of the pause flag.
transfer_check_no_pause(caller, to, amount) ==
    IF check_blacklisted(caller) \/ check_blacklisted(to) THEN "AccountBlacklisted"
    ELSE IF amount = 0 THEN "InvalidAmount"
    ELSE IF balance_of(caller) < amount THEN "InsufficientBalance"
    ELSE "Ok"

\* The validations of transfer with the flags consulted last.
transfer_check_flags_last(caller, to, amount) ==
    IF amount = 0 THEN "InvalidAmount"
    ELSE IF balance_of(caller) < amount THEN "InsufficientBalance"
    ELSE IF is_paused THEN "ContractPaused"
    ELSE IF check_blacklisted(caller) \/ check_blacklisted(to) THEN "AccountBlacklisted"
    ELSE "Ok"

\* The validations of transfer, in the order the code makes them.
transfer_check(caller, to, amount) ==
    IF is_paused THEN "ContractPaused"
    ELSE IF check_blacklisted(caller) \/ check_blacklisted(to) THEN "AccountBlacklisted"
    ELSE IF amount = 0 THEN "InvalidAmount"
    ELSE IF balance_of(caller) < amount THEN "InsufficientBalance"
    ELSE "Ok"

transfer(caller, to, amount) ==
    LET check == transfer_check(caller, to, amount)
        caller_balance == balance_of(caller)
        to_balance == balance_of(to)
        new_caller_balance == checked_sub(caller_balance, amount)
        new_to_balance == checked_add(to_balance, amount)
    IN  IF check # "Ok" THEN
            /\ Return("transfer", caller, to, amount, check, 0)
            /\ emitted' = <<>>
            /\ UNCHANGED storage
            /\ UNCHANGED history
        ELSE IF new_caller_balance = None \/ new_to_balance = None THEN
            /\ Return("transfer", caller, to, amount, "Overflow", 0)
            /\ emitted' = <<>>
            /\ UNCHANGED storage
            /\ UNCHANGED history
        ELSE
            \* two inserts in sequence: with caller = to the second overwrites the first
            /\ balances' = insert(insert(balances, caller, new_caller_balance), to, new_to_balance)
            /\ emitted' = <<Transfer(caller, to, amount)>>
            /\ Return("transfer", caller, to, amount, "Ok", 0)
            /\ UNCHANGED <<owner, total_supply, allowances, is_paused, blacklist>>
            /\ UNCHANGED history

\* ---------------------------------------------------------------- reads
\* The read-only messages take &self and do not look at env().caller().
BalanceOf(account) ==
    /\ Return("balance_of", 0, account, 0, "Ok", balance_of(account))
    /\ emitted' = <<>>
    /\ UNCHANGED storage
    /\ UNCHANGED history

TotalSupply ==
    /\ Return("total_supply", 0, 0, 0, "Ok", total_supply)
    /\ emitted' = <<>>
    /\ UNCHANGED storage
    /\ UNCHANGED history

GetOwner ==
    /\ Return("get_owner", 0, 0, 0, "Ok", owner)
    /\ emitted' = <<>>
    /\ UNCHANGED storage
    /\ UNCHANGED history

\* ---------------------------------------------------------------- system
Mint == \E caller \in AccountId, to \in AccountId, amount \in U128 : mint(caller, to, amount)

TransferCall == \E caller \in AccountId, to \in AccountId, amount \in U128 : transfer(caller, to, amount)

BalanceOfCall == \E account \in AccountId : BalanceOf(account)

Next == Mint \/ TransferCall \/ BalanceOfCall \/ TotalSupply \/ GetOwner

Spec == Init /\ [][Next]_vars

\* ---------------------------------------------------------------- the flags as inputs
\* The code has no message that writes is_paused or blacklist, yet transfer
\* reads both.  To exercise those reads the contract is started from a storage
\* in which the two fields hold values of their types: the flag either way,
\* the blacklist with no entry or with an entry, true or false, for the first
\* account (which is the owner, a caller or a recipient as the calls choose).
Blacklists == {<<>>} \cup {[x \in {1} |-> b] : b \in BOOLEAN}

InitFlags ==
    /\ owner \in AccountId
    /\ balances = <<>>
    /\ total_supply = 0
    /\ allowances = <<>>
    /\ is_paused \in BOOLEAN
    /\ blacklist \in Blacklists
    /\ call = [op |-> "new", caller |-> owner, to |-> owner, amount |-> 0,
               result |-> "Ok", value |-> 0]
    /\ emitted = <<>>
    /\ minted = 0

SpecFlags == InitFlags /\ [][Next]_vars

\* ---------------------------------------------------------------- set_paused
\* src/lib.rs declares is_paused, the events Paused and Unpaused and the error
\* Unauthorized, and transfer reads the flag, but the file holds no message
\* that writes it.  set_paused is taken from section 4.1 of the specification:
\* administrator only, a pure flip of the flag, Paused or Unpaused emitted.
Paused(by) == [event |-> "Paused", by |-> by]

Unpaused(by) == [event |-> "Unpaused", by |-> by]

set_paused(caller, value) ==
    IF caller # owner THEN
        /\ call' = [op |-> "set_paused", caller |-> caller, to |-> 0, amount |-> 0,
                    result |-> "Unauthorized", value |-> 0, flag |-> value]
        /\ emitted' = <<>>
        /\ UNCHANGED storage
        /\ UNCHANGED history
    ELSE
        /\ is_paused' = value
        /\ call' = [op |-> "set_paused", caller |-> caller, to |-> 0, amount |-> 0,
                    result |-> "Ok", value |-> 0, flag |-> value]
        /\ emitted' = <<IF value THEN Paused(caller) ELSE Unpaused(caller)>>
        /\ UNCHANGED <<owner, balances, total_supply, allowances, blacklist>>
        /\ UNCHANGED history

SetPausedCall == \E caller \in AccountId, value \in BOOLEAN : set_paused(caller, value)

NextPause == Next \/ SetPausedCall

SpecPause == Init /\ [][NextPause]_vars

\* ---------------------------------------------------------------- approve, transfer_from
\* src/lib.rs declares allowances, the event Approval and the error
\* InsufficientAllowance, but the file holds no message that uses them.  approve
\* and transfer_from are taken from section 4.1 of the specification.
Approval(holder, spender, amount) ==
    [event |-> "Approval", owner |-> holder, spender |-> spender, amount |-> amount]

\* allowances[(holder, spender)], zero when absent
allowance(holder, spender) ==
    IF <<holder, spender>> \in DOMAIN allowances THEN allowances[<<holder, spender>>] ELSE 0

\* approve: an absolute set, no balance check.
approve(caller, spender, amount) ==
    /\ allowances' = insert(allowances, <<caller, spender>>, amount)
    /\ call' = [op |-> "approve", caller |-> caller, to |-> spender, amount |-> amount,
                result |-> "Ok", value |-> 0]
    /\ emitted' = <<Approval(caller, spender, amount)>>
    /\ UNCHANGED <<owner, balances, total_supply, is_paused, blacklist>>
    /\ UNCHANGED history

\* The preconditions of transfer_from: pause and blacklist as in transfer
\* (applied to the holder and the recipient), then allowance, then balance.
transfer_from_check(spender, holder, to, amount) ==
    IF is_paused THEN "ContractPaused"
    ELSE IF check_blacklisted(holder) \/ check_blacklisted(to) THEN "AccountBlacklisted"
    ELSE IF allowance(holder, spender) < amount THEN "InsufficientAllowance"
    ELSE IF balance_of(holder) < amount THEN "InsufficientBalance"
    ELSE "Ok"

transfer_from(spender, holder, to, amount) ==
    LET check == transfer_from_check(spender, holder, to, amount)
        new_allowance == checked_sub(allowance(holder, spender), amount)
        new_holder_balance == checked_sub(balance_of(holder), amount)
        debited == IF new_holder_balance = None THEN balances
                   ELSE insert(balances, holder, new_holder_balance)
        to_balance == IF to \in DOMAIN debited THEN debited[to] ELSE 0
        new_to_balance == checked_add(to_balance, amount)
        Returns(result) ==
            call' = [op |-> "transfer_from", caller |-> spender, from |-> holder, to |-> to,
                     amount |-> amount, result |-> result, value |-> 0]
    IN  IF check # "Ok" THEN
            /\ Returns(check)
            /\ emitted' = <<>>
            /\ UNCHANGED storage
            /\ UNCHANGED history
        ELSE IF new_allowance = None \/ new_holder_balance = None \/ new_to_balance = None THEN
            /\ Returns("Overflow")
            /\ emitted' = <<>>
            /\ UNCHANGED storage
            /\ UNCHANGED history
        ELSE
            /\ allowances' = insert(allowances, <<holder, spender>>, new_allowance)
            /\ balances' = insert(debited, to, new_to_balance)
            /\ Returns("Ok")
            /\ emitted' = <<Transfer(holder, to, amount)>>
            /\ UNCHANGED <<owner, total_supply, is_paused, blacklist>>
            /\ UNCHANGED history

\* The calls of approve are those that keep at most MaxApprovals pairs.
ApproveCall ==
    \E caller \in AccountId, spender \in AccountId, amount \in U128 :
        /\ Cardinality(DOMAIN allowances \cup {<<caller, spender>>}) <= MaxApprovals
        /\ approve(caller, spender, amount)

TransferFromCall ==
    \E spender \in AccountId, holder \in AccountId, to \in AccountId, amount \in U128 :
        transfer_from(spender, holder, to, amount)

NextAllowance == Mint \/ ApproveCall \/ TransferFromCall

SpecAllowance == Init /\ [][NextAllowance]_vars

\* ---------------------------------------------------------------- properties
RECURSIVE SumOver(_, _)
SumOver(m, S) ==
    IF S = {} THEN 0
    ELSE LET k == CHOOSE x \in S : TRUE IN m[k] + SumOver(m, S \ {k})

\* sum(balances.values())
SumBalances == SumOver(balances, DOMAIN balances)

\* The step is a call of the message op.
IsCall(op) == call'.op = op

Failed == call'.result # "Ok"

\* The balance an account reads after the step.
BalanceAfter(account) == IF account \in DOMAIN balances' THEN balances'[account] ELSE 0

\* C1: in every reachable state total_supply equals the sum of all stored balances.
C1_SupplyEqualsSum == total_supply = SumBalances

\* C2: a mint or transfer that returns an error leaves every storage field
\* (balances, allowances, total_supply, pause flag, blacklist, owner) as it was.
C2_FailedCallChangesNothing ==
    [][(IsCall("mint") \/ IsCall("transfer")) /\ Failed => UNCHANGED storage]_vars

\* C3: mint by a caller other than the owner returns Unauthorized whatever the
\* recipient and the amount (0 included) and changes neither total_supply nor
\* balances; mint by the owner with amount 0 returns InvalidAmount.
C3_MintAuthorization ==
    [][IsCall("mint") =>
          /\ call'.caller # owner =>
                /\ call'.result = "Unauthorized"
                /\ total_supply' = total_supply
                /\ balances' = balances
          /\ (call'.caller = owner /\ call'.amount = 0) => call'.result = "InvalidAmount"]_vars

C3_Witness ==
    /\ call.op = "mint" /\ call.caller # owner /\ call.amount = 0
    /\ call.result = "Unauthorized"
    /\ total_supply > 0

\* C4: a mint by the owner with amount # 0 for which neither addition overflows
\* succeeds, and adds amount to balances[to] and to total_supply.
C4_MintEffect ==
    [][(/\ IsCall("mint") /\ call'.caller = owner /\ call'.amount # 0
        /\ balance_of(call'.to) + call'.amount <= U128Max
        /\ total_supply + call'.amount <= U128Max)
       => /\ call'.result = "Ok"
          /\ BalanceAfter(call'.to) = balance_of(call'.to) + call'.amount
          /\ total_supply' = total_supply + call'.amount]_vars

C4_Witness ==
    /\ call.op = "mint" /\ call.result = "Ok"
    /\ balance_of(call.to) = U128Max
    /\ call.amount < U128Max

\* C5: a mint by the owner with amount # 0 returns Overflow exactly when
\* balances[to] + amount or total_supply + amount exceeds the maximum, and then
\* changes neither balances[to] nor total_supply.
C5_MintOverflow ==
    [][(IsCall("mint") /\ call'.caller = owner /\ call'.amount # 0)
       => /\ call'.result = "Overflow" <=>
                \/ balance_of(call'.to) + call'.amount > U128Max
                \/ total_supply + call'.amount > U128Max
          /\ call'.result = "Overflow" =>
                /\ BalanceAfter(call'.to) = balance_of(call'.to)
                /\ total_supply' = total_supply]_vars

\* C6: transfer returns the error of the first failing precondition in the order
\* pause flag, blacklist (caller or recipient), zero amount, insufficient
\* balance; with the flag clear and nobody blacklisted a transfer of 0 returns
\* InvalidAmount whatever the balances are.
C6_TransferCheckOrder ==
    [][IsCall("transfer") =>
          IF is_paused THEN call'.result = "ContractPaused"
          ELSE IF check_blacklisted(call'.caller) \/ check_blacklisted(call'.to)
               THEN call'.result = "AccountBlacklisted"
          ELSE IF call'.amount = 0 THEN call'.result = "InvalidAmount"
          ELSE IF balance_of(call'.caller) < call'.amount
               THEN call'.result = "InsufficientBalance"
          ELSE call'.result \in {"Ok", "Overflow"}]_vars

C6_Witness ==
    /\ call.op = "transfer" /\ call.result = "ContractPaused"
    /\ check_blacklisted(call.to)
    /\ call.amount = 0
    /\ total_supply > 0

\* C7: a transfer to a different account with amount # 0, a sufficient balance,
\* the pause flag clear and neither party blacklisted succeeds, moves amount
\* from balances[caller] to balances[to] and leaves total_supply as it was.
C7_TransferEffect ==
    [][(/\ IsCall("transfer") /\ call'.caller # call'.to /\ call'.amount # 0
        /\ balance_of(call'.caller) >= call'.amount
        /\ ~is_paused
        /\ ~check_blacklisted(call'.caller) /\ ~check_blacklisted(call'.to))
       => /\ call'.result = "Ok"
          /\ BalanceAfter(call'.caller) = balance_of(call'.caller) - call'.amount
          /\ BalanceAfter(call'.to) = balance_of(call'.to) + call'.amount
          /\ total_supply' = total_supply]_vars

\* C8: a transfer of more than the caller's balance (pause clear, nobody
\* blacklisted, amount # 0) returns InsufficientBalance and leaves the balances
\* of the caller and of the recipient as they were.
C8_InsufficientBalance ==
    [][(/\ IsCall("transfer") /\ call'.amount # 0
        /\ call'.amount > balance_of(call'.caller)
        /\ ~is_paused
        /\ \A a \in AccountId : ~check_blacklisted(a))
       => /\ call'.result = "InsufficientBalance"
          /\ BalanceAfter(call'.caller) = balance_of(call'.caller)
          /\ BalanceAfter(call'.to) = balance_of(call'.to)]_vars

C8_Witness ==
    /\ call.op = "transfer" /\ call.result = "InsufficientBalance"
    /\ balance_of(call.caller) > 0
    /\ call.caller # call.to

\* Every stored amount is a value of the unsigned type.
InRange ==
    /\ total_supply \in U128
    /\ \A a \in DOMAIN balances : balances[a] \in U128

\* What a step stores is an operand plus or minus the amount of the call, exactly.
ExactArithmetic ==
    /\ total_supply' \in {total_supply, total_supply + call'.amount}
    /\ \A a \in AccountId :
          BalanceAfter(a) \in {balance_of(a), balance_of(a) + call'.amount,
                              balance_of(a) - call'.amount}

\* C9: every stored balance and total_supply lies in 0 .. U128Max, and no step
\* stores a value other than the exact sum or difference of its operands.
C9_NoWrap == []InRange /\ [][ExactArithmetic]_vars

C9_Witness ==
    /\ call.op = "mint" /\ call.result = "Overflow"
    /\ call.caller = owner /\ call.amount # 0
    /\ balance_of(call.to) + call.amount > U128Max

\* C10: total_supply never decreases; it increases in exactly the steps that
\* are successful mints, so every transfer and every rejected mint leaves it.
C10_SupplyMonotone ==
    [][/\ total_supply' >= total_supply
       /\ total_supply' > total_supply <=> (IsCall("mint") /\ call'.result = "Ok")]_vars

C10_Witness ==
    /\ call.op = "transfer" /\ call.result = "Ok"
    /\ total_supply = U128Max

\* C11: the owner is the caller that constructed the contract and never
\* changes, whatever is called and by whom; get_owner returns it.
C11_OwnerFixed ==
    /\ [](call.op = "new" => owner = call.caller)
    /\ [][/\ owner' = owner
          /\ IsCall("get_owner") => call'.value = owner]_vars

C11_Witness ==
    /\ call.op = "transfer" /\ call.result = "Ok"
    /\ call.caller # owner
    /\ call.to # owner

\* C12: balance_of returns the stored balance and changes no state, and an
\* account that no successful mint or transfer has paid into reads 0: the
\* contract starts with no balance stored, and an account without a stored
\* balance gets a nonzero one only as the recipient of a successful mint or
\* transfer.
C12_BalanceOf ==
    /\ [](call.op = "new" => total_supply = 0 /\ \A a \in AccountId : balance_of(a) = 0)
    /\ [][/\ IsCall("balance_of") =>
                /\ call'.value = balance_of(call'.to)
                /\ UNCHANGED storage
          /\ \A a \in AccountId :
                (a \notin DOMAIN balances /\ BalanceAfter(a) # 0) =>
                    /\ IsCall("mint") \/ IsCall("transfer")
                    /\ call'.result = "Ok"
                    /\ call'.to = a]_vars

\* C13: a successful mint hands exactly one Minted(to, amount) to the event
\* sink, a successful transfer exactly one Transfer(caller, to, amount), and a
\* call that returns an error hands it nothing.
C13_EventsOnSuccessOnly ==
    [][/\ (IsCall("mint") /\ ~Failed) =>
             emitted' = <<[event |-> "Minted", from |-> 0, to |-> call'.to,
                           amount |-> call'.amount]>>
       /\ (IsCall("transfer") /\ ~Failed) =>
             emitted' = <<[event |-> "Transfer", from |-> call'.caller, to |-> call'.to,
                           amount |-> call'.amount]>>
       /\ Failed => emitted' = <<>>]_vars

C13_Witness ==
    /\ call.op = "mint" /\ call.result = "Overflow"
    /\ balance_of(call.to) = call.amount
    /\ emitted = <<>>

\* What mint returns, from its inputs and the balances alone.
MintResult ==
    IF call'.caller # owner THEN "Unauthorized"
    ELSE IF call'.amount = 0 THEN "InvalidAmount"
    ELSE IF balance_of(call'.to) + call'.amount > U128Max
            \/ total_supply + call'.amount > U128Max THEN "Overflow"
    ELSE "Ok"

\* C14: once the administrator has called set_paused(true) the flag is set and
\* every transfer returns ContractPaused; mint does not look at the flag: it
\* returns what it returns with the flag clear, and an administrator's mint
\* that fits still succeeds and adds its amount.
C14_PauseStopsTransferOnly ==
    [][/\ (IsCall("set_paused") /\ call'.caller = owner) =>
             (call'.result = "Ok" /\ is_paused' = call'.flag)
       /\ (is_paused /\ IsCall("transfer")) =>
             (call'.result = "ContractPaused" /\ UNCHANGED storage)
       /\ IsCall("mint") =>
             /\ call'.result = MintResult
             /\ call'.result = "Ok" =>
                   /\ total_supply' = total_supply + call'.amount
                   /\ BalanceAfter(call'.to) = balance_of(call'.to) + call'.amount]_vars

C14_Witness ==
    /\ is_paused
    /\ call.op = "mint" /\ call.result = "Ok"
    /\ total_supply = U128Max

\* The allowance a pair reads after the step.
AllowanceAfter(holder, spender) ==
    IF <<holder, spender>> \in DOMAIN allowances' THEN allowances'[<<holder, spender>>] ELSE 0

C17_NoSpuriousOverflow ==
    [][(/\ IsCall("transfer") /\ ~is_paused
        /\ ~check_blacklisted(call'.caller) /\ ~check_blacklisted(call'.to)
        /\ call'.amount # 0
        /\ balance_of(call'.caller) >= call'.amount)
       => call'.result # "Overflow"]_vars

\* C18: a successful transfer to oneself leaves balances[caller], and the sum
\* of all balances, as they were.
C18_SelfTransferNeutral ==
    [][(IsCall("transfer") /\ call'.caller = call'.to /\ call'.result = "Ok")
       => /\ BalanceAfter(call'.caller) = balance_of(call'.caller)
          /\ SumOver(balances', DOMAIN balances') = SumBalances]_vars

\* C19: total_supply is the sum of the amounts of the successful mints so far,
\* and no call by a caller other than the owner changes it.
C19_SupplyIsMinted ==
    /\ [](total_supply = minted)
    /\ [][call'.caller # owner => total_supply' = total_supply]_vars

C19_Witness ==
    /\ call.op = "mint" /\ call.result = "Unauthorized"
    /\ call.amount # 0
    /\ minted = U128Max

\* C20: with the messages the code defines the pause flag is false, no account
\* is blacklisted, every allowance is zero, and no call has returned
\* ContractPaused, AccountBlacklisted or InsufficientAllowance.
C20_FlagsNeverSet ==
    /\ ~is_paused
    /\ \A a \in DOMAIN blacklist : ~blacklist[a]
    /\ \A p \in DOMAIN allowances : allowances[p] = 0
    /\ call.result \notin {"ContractPaused", "AccountBlacklisted", "InsufficientAllowance"}

C20_Witness ==
    /\ call.op = "transfer" /\ call.result = "Ok"
    /\ call.caller # call.to
    /\ balance_of(call.caller) = 0

====
